---- MODULE Spec2Model ----
(***************************************************************************)
(* CardMaker (src/src/core.js): the config store, the canvas provisioning, *)
(* the render pipeline (background, image layers, text) with its promise   *)
(* callbacks and zero-delay timers, and the download binding.              *)
(*                                                                         *)
(* One JavaScript macrotask is one action: a call of a method with the     *)
(* promise callbacks (microtasks) it leaves runnable, the completion of an *)
(* image load with the callbacks chained on it, or the firing of a timer.  *)
(***************************************************************************)
EXTENDS FiniteSets, Integers, Sequences, TLC

(* ------------------------------ bounds -------------------------------- *)

\* longest image list of a template
MaxImages == 2
\* longest text list of a template
MaxText == 2
\* calls of public methods on a constructed instance
MaxCalls == 2

(* -------------------------- JavaScript values ------------------------- *)

Undef == [t |-> "undefined"]
Str(x) == [t |-> "string", s |-> x]
Num(k) == [t |-> "number", n |-> k]
Bool(v) == [t |-> "boolean", b |-> v]
\* a canvas element; id 0 is a canvas the caller made, ids 1.. come from makeElement
Canvas(i) == [t |-> "canvas", id |-> i]
\* an array of n items (the items of an image or text list are ImageLayer(i), TextItem(j))
Arr(n) == [t |-> "array", len |-> n]
\* a list of config keys
Keys(ks) == [t |-> "array", len |-> Len(ks), keys |-> ks]
\* an object literal, its own properties in insertion order
Obj(es) == [t |-> "object", entries |-> es]
\* a template: background, images and text are Undef when the property is absent
Tpl(bg, im, tx) == [t |-> "template", background |-> bg, images |-> im, text |-> tx]

\* typeof v
TypeOf(v) ==
  IF v.t \in {"canvas", "array", "object", "template"} THEN "object" ELSE v.t

\* ToBoolean(v): what `if (v)`, `!v` and `a || b` test
Truthy(v) ==
  CASE v.t = "undefined" -> FALSE
    [] v.t = "string" -> v.s # ""
    [] v.t = "number" -> v.n # 0
    [] v.t = "boolean" -> v.b
    [] OTHER -> TRUE

\* v == '' (abstract equality with the empty string)
LooseEqEmpty(v) ==
  CASE v.t = "string" -> v.s = ""
    [] v.t = "number" -> v.n = 0
    [] v.t = "boolean" -> ~v.b
    [] v.t = "array" -> v.len = 0
    [] OTHER -> FALSE

\* v != undefined
NotUndefined(v) == v.t # "undefined"

(* ------------------------------ the store ----------------------------- *)

\* config[k]: undefined for a key the store does not hold
Lookup(config, k) == IF k \in DOMAIN config THEN config[k] ELSE Undef

\* config[k] = v
Put(config, k, v) ==
  [x \in (DOMAIN config) \cup {k} |-> IF x = k THEN v ELSE config[x]]

NoKeys == [k \in {} |-> Undef]

\* the store the constructor starts from
DefaultConfig ==
  [align |-> Str("left"), background |-> Undef, canvas |-> Undef,
   color |-> Str("black"), download |-> Str(""), el |-> Str("#cardmaker"),
   width |-> Num(400), height |-> Num(250), template |-> Tpl(Undef, Undef, Undef)]

\* the loop of getConfig over a list of keys, from index k on
RECURSIVE getConfigLoop(_, _, _, _)
getConfigLoop(config, keys, k, result) ==
  IF k > Len(keys) THEN result
  ELSE getConfigLoop(config, keys, k + 1, Put(result, keys[k], Lookup(config, keys[k])))

\* getConfig(key), key a string
getConfigString(config, key) ==
  IF LooseEqEmpty(Lookup(config, key))
  THEN [err |-> "ConfigKey", val |-> Undef]
  ELSE [err |-> "none", val |-> Lookup(config, key)]

\* the list branch leaving out the keys the store does not hold
getConfigList_present(config, keys) ==
  [err |-> "none",
   val |-> [k \in {keys[i] : i \in 1..Len(keys)} \cap DOMAIN config |-> config[k]]]

\* getConfig(key), key a list of keys
getConfigList(config, keys) ==
  [err |-> "none", val |-> getConfigLoop(config, keys, 1, NoKeys)]

\* getConfig(key): [err, val]
getConfig(config, key) ==
  IF Truthy(key)
  THEN IF TypeOf(key) = "object" THEN getConfigList(config, key.keys)
       ELSE IF TypeOf(key) = "string" THEN getConfigString(config, key.s)
       ELSE [err |-> "none", val |-> Undef]
  ELSE [err |-> "none", val |-> config]

\* the loop of setConfig over the entries of an object: [config, keys]
RECURSIVE setConfigLoop(_, _, _, _)
setConfigLoop(config, entries, i, keys) ==
  IF i > Len(entries) THEN [config |-> config, keys |-> keys]
  ELSE setConfigLoop(Put(config, entries[i].key, entries[i].val), entries, i + 1,
                     Append(keys, entries[i].key))

\* a setConfig that keeps the first value of a key
setConfig_keep(config, p0, p1) ==
  IF TypeOf(p0) = "object"
  THEN LET r == setConfigLoop(config, p0.entries, 1, <<>>)
       IN  [config |-> r.config, err |-> "none",
            val |-> getConfig(r.config, Keys(r.keys)).val]
  ELSE LET c == IF p0.s \in DOMAIN config /\ NotUndefined(config[p0.s])
                THEN config ELSE Put(config, p0.s, p1)
       IN  [config |-> c, err |-> "none", val |-> getConfig(c, Keys(<<p0.s>>)).val]

\* setConfig(p0, p1): [config, err, val]
setConfig(config, p0, p1) ==
  IF TypeOf(p0) = "object"
  THEN LET r == setConfigLoop(config, p0.entries, 1, <<>>)
       IN  [config |-> r.config, err |-> "none",
            val |-> getConfig(r.config, Keys(r.keys)).val]
  ELSE LET c == Put(config, p0.s, p1)
       IN  [config |-> c, err |-> "none", val |-> getConfig(c, Keys(<<p0.s>>)).val]

(* ------------------------- the host environment ----------------------- *)

\* the selectors that match an element of the document
DomSelectors == {"#cardmaker", "#dl"}

\* document.querySelector(sel): the selector of the element found, or null
querySelector(sel) ==
  IF sel.t = "string" /\ sel.s \in DomSelectors THEN sel ELSE [t |-> "null"]

\* utils.isColor(v): a named or hex color
ColorNames == {"black", "blue", "red", "#000000"}
isColor(v) == v.t = "string" /\ v.s \in ColorNames

\* utils.colorNameToHex(name)
colorNameToHex(name) == IF name = "black" THEN Str("#000000") ELSE Str(name)

\* utils.makeElement('canvas', props): a new, unattached canvas element
makeElement(made, props) == Canvas(made + 1)

\* the items of the lists of a template
ImageLayer(i) == [value |-> Str("layer.png"), props |-> [x |-> Num(i), y |-> Undef]]
TextItem(j) ==
  IF j = 1 THEN [value |-> Str("Hi"), props |-> [x |-> Num(10), y |-> Num(20), color |-> Undef]]
  ELSE IF j = 2 THEN [value |-> Str(""), props |-> [x |-> Undef, y |-> Undef, color |-> Undef]]
  ELSE [value |-> Str("Yo"), props |-> [x |-> Num(j), y |-> Num(j), color |-> Str("red")]]

\* a || b
OrElse(a, b) == IF Truthy(a) THEN a ELSE b

(* ------------------------------ an instance --------------------------- *)
(* The operators below take the state s of an instance and return the     *)
(* state the method leaves. s.err is the exception the method threw       *)
(* ("none" when it returned) and s.at the method that threw it; s.val is  *)
(* the value it returned.                                                 *)

Throw(s, e, where) == [s EXCEPT !.err = e, !.at = where]
Return(s, v) == [s EXCEPT !.val = v]
Failed(s) == s.err # "none"

\* getContext(): [err, val], val the canvas whose 2d context it is
getContext(s) ==
  LET g == getConfig(s.config, Str("canvas"))
  IN  IF g.err # "none" THEN g
      ELSE IF Truthy(g.val)
           THEN IF g.val.t = "canvas" THEN g ELSE [err |-> "TypeError", val |-> Undef]
           ELSE [err |-> "none", val |-> Undef]

\* changeBackground(type, props); props.r is the render the paint belongs to
changeBackground(s, type, props) ==
  LET config == getConfig(s.config, Keys(<<"width", "height">>)).val
      ctx == getContext(s)
  IN  IF ctx.err # "none" THEN Throw(s, ctx.err, "changeBackground")
      ELSE IF ctx.val.t = "undefined" THEN Throw(s, "TypeError", "changeBackground")
      ELSE IF type = "image"
           THEN IF props.img.t = "undefined" THEN Throw(s, "MissingImage", "changeBackground")
                ELSE [s EXCEPT !.draws = Append(@,
                        [op |-> "drawImage", r |-> props.r, i |-> 0, cv |-> ctx.val.id,
                         arg |-> props.img, x |-> Num(0), y |-> Num(0),
                         w |-> config["width"], h |-> config["height"], style |-> Undef])]
           ELSE IF props.color.t = "undefined" THEN Throw(s, "MissingColor", "changeBackground")
                ELSE [s EXCEPT !.draws = Append(@,
                        [op |-> "fillRect", r |-> props.r, i |-> 0, cv |-> ctx.val.id,
                         arg |-> props.color, x |-> Num(0), y |-> Num(0),
                         w |-> config["width"], h |-> config["height"],
                         style |-> props.color])]

\* a makeCanvas that does not look for a canvas already set
makeCanvas_unguarded(s, props) ==
  LET canvas == makeElement(s.made, props)
      c == setConfig(s.config, Str("canvas"), canvas)
  IN  Return([s EXCEPT !.made = @ + 1, !.config = c.config], canvas)

\* makeCanvas(props)
makeCanvas(s, props) ==
  LET g == getConfig(s.config, Str("canvas"))
  IN  IF g.err # "none" THEN Throw(s, g.err, "makeCanvas")
      ELSE IF NotUndefined(g.val) THEN Throw(s, "DuplicateCanvas", "makeCanvas")
      ELSE LET canvas == makeElement(s.made, props)
               c == setConfig(s.config, Str("canvas"), canvas)
           IN  Return([s EXCEPT !.made = @ + 1, !.config = c.config], canvas)

\* a putCanvas that returns the canvas, unattached, when the container is not found
putCanvas_detached(s) ==
  LET config == getConfig(s.config, Keys(<<"el", "width", "height">>)).val
      m == makeCanvas(s, [width |-> config["width"], height |-> config["height"]])
      elem == querySelector(config["el"])
  IN  IF Failed(m) THEN m
      ELSE IF elem.t # "null"
           THEN Return([m EXCEPT !.children = Append(@, m.val.id)], m.val)
           ELSE Return(m, m.val)

\* putCanvas()
putCanvas(s) ==
  LET config == getConfig(s.config, Keys(<<"el", "width", "height">>)).val
      m == makeCanvas(s, [width |-> config["width"], height |-> config["height"]])
      elem == querySelector(config["el"])
  IN  IF Failed(m) THEN m
      ELSE IF elem.t # "null"
           THEN Return([m EXCEPT !.children = Append(@, m.val.id)], m.val)
           ELSE Throw(m, "ElNotFound", "putCanvas")

\* an enableDownload that ignores a selector that matches nothing
enableDownload_silent(s) ==
  LET g == getConfig(s.config, Str("download"))
  IN  IF g.err # "none" THEN Throw(s, g.err, "enableDownload")
      ELSE IF g.val.t = "undefined" THEN Throw(s, "TypeError", "enableDownload")
      ELSE IF g.val.t = "string" /\ g.val.s # "" /\ querySelector(g.val).t # "null"
           THEN Return([s EXCEPT !.listeners[g.val.s] = @ + 1], Undef)
           ELSE Return(s, Undef)

\* enableDownload()
enableDownload(s) ==
  LET g == getConfig(s.config, Str("download"))
  IN  IF g.err # "none" THEN Throw(s, g.err, "enableDownload")
      ELSE IF g.val.t = "undefined" THEN Throw(s, "TypeError", "enableDownload")
      ELSE IF g.val.t = "string" /\ g.val.s # ""
           THEN LET downloadButton == querySelector(g.val)
                IN  IF downloadButton.t # "null"
                    THEN Return([s EXCEPT !.listeners[downloadButton.s] = @ + 1], Undef)
                    ELSE Throw(s, "DownloadNotFound", "enableDownload")
           ELSE Return(s, Undef)

\* a getImage that encodes the canvas only when no image load is awaited
getImage_idle(s, format) ==
  LET g == getConfig(s.config, Str("canvas"))
  IN  IF g.err # "none" THEN Throw(s, g.err, "getImage")
      ELSE IF g.val.t # "canvas" THEN Throw(s, "TypeError", "getImage")
      ELSE IF \E r \in 1..Len(s.renders) : s.renders[r].phase = "loading"
           THEN Throw(s, "NotReady", "getImage")
      ELSE Return(s, [t |-> "dataurl", cv |-> g.val.id, format |-> format])

\* getImage(format)
getImage(s, format) ==
  LET g == getConfig(s.config, Str("canvas"))
  IN  IF g.err # "none" THEN Throw(s, g.err, "getImage")
      ELSE IF g.val.t # "canvas" THEN Throw(s, "TypeError", "getImage")
      ELSE Return(s, [t |-> "dataurl", cv |-> g.val.id, format |-> format])

(* ---------------------------- the render ------------------------------ *)
(* A call of render() is a record of s.renders: the number n of layers of  *)
(* the image list renderImage read, the layer idx whose load is awaited,   *)
(* the phase of the promise renderImage returned ("loading", "resolved",   *)
(* "rejected"; "thrown" when render() threw before it), bg the load of a   *)
(* background image ("none", "loading", "loaded", "failed") and text what  *)
(* renderText did ("none" while it was not called, "scheduled",            *)
(* "rejected"); src is the source the background image is loaded from and   *)
(* failed the layer whose load failed (0 while none did).                  *)

NewRender ==
  [n |-> 0, idx |-> 0, failed |-> 0, phase |-> "sync", bg |-> "none", src |-> Undef,
   text |-> "none"]

\* x.length > 0
LengthPositive(v) ==
  \/ v.t = "string" /\ v.s # ""
  \/ v.t = "array" /\ v.len > 0

\* Promise.each(arr, fn) returns a rejected promise without calling fn
PromiseEachRejects(arr) == ~Truthy(arr) \/ ~LengthPositive(arr)

\* getConfig('template')[name]
TemplateList(s, name) ==
  LET g == getConfig(s.config, Str("template"))
  IN  IF g.err # "none" \/ g.val.t # "template" THEN Undef
      ELSE IF name = "images" THEN g.val.images ELSE g.val.text

\* makeImage(src), once loaded: the image of that source
makeImage(src) == [t |-> "image", src |-> src]

\* renderBackground(), called by render r
renderBackground(s, r) ==
  LET g == getConfig(s.config, Str("background"))
      background == g.val
  IN  IF g.err # "none" THEN Throw(s, g.err, "renderBackground")
      ELSE IF isColor(background)
           THEN changeBackground(s, "color", [color |-> background, r |-> r])
      ELSE IF NotUndefined(background) /\ ~LooseEqEmpty(background)
           THEN [s EXCEPT !.renders[r].bg = "loading", !.renders[r].src = background]
      ELSE LET c == changeBackground(s, "color", [color |-> colorNameToHex("black"), r |-> r])
           IN  IF Failed(c) THEN c
               ELSE [c EXCEPT !.warns = Append(@, "no background")]

\* renderImage(), called by render r: the first load starts
renderImage(s, r) ==
  LET images == TemplateList(s, "images")
  IN  IF PromiseEachRejects(images)
      THEN [s EXCEPT !.renders[r].phase = "rejected"]
      ELSE [s EXCEPT !.renders[r].phase = "loading",
                     !.renders[r].n = images.len,
                     !.renders[r].idx = 1]

\* a renderText that schedules the draws of the text items last item first
renderText_reversed(s, r) ==
  LET text == TemplateList(s, "text")
  IN  IF PromiseEachRejects(text)
      THEN [s EXCEPT !.renders[r].text = "rejected"]
      ELSE [s EXCEPT !.renders[r].text = "scheduled",
                     !.timers = @ \o [j \in 1..text.len |->
                                        [kind |-> "text", r |-> r, i |-> text.len + 1 - j,
                                         ctx |-> Undef]]]

\* renderText(), called when the promises of render r are all resolved
renderText(s, r) ==
  LET text == TemplateList(s, "text")
  IN  IF PromiseEachRejects(text)
      THEN [s EXCEPT !.renders[r].text = "rejected"]
      ELSE [s EXCEPT !.renders[r].text = "scheduled",
                     !.timers = @ \o [j \in 1..text.len |->
                                        [kind |-> "text", r |-> r, i |-> j, ctx |-> Undef]]]

\* a render that leaves the background of the template where it is
render_nocopy(s) ==
  LET config == getConfig(s.config, Keys(<<"background", "template">>)).val
      tb == config["template"].background
      r == Len(s.renders) + 1
  IN  IF ~Truthy(config["background"]) /\ tb.t = "undefined"
      THEN Throw(s, "TypeError", "render")
      ELSE LET s2 == [s EXCEPT !.renders = Append(@, NewRender)]
               s3 == renderBackground(s2, r)
           IN  IF Failed(s3) THEN [s3 EXCEPT !.renders[r].phase = "thrown"]
               ELSE Return(renderImage(s3, r), Undef)

\* a render that does not wait for the image promise to run renderText
render_nowait(s) ==
  LET config == getConfig(s.config, Keys(<<"background", "template">>)).val
      tb == config["template"].background
      r == Len(s.renders) + 1
  IN  IF ~Truthy(config["background"]) /\ tb.t = "undefined"
      THEN Throw(s, "TypeError", "render")
      ELSE LET s1 == IF ~Truthy(config["background"]) /\ LengthPositive(tb)
                     THEN [s EXCEPT !.config = setConfig(s.config, Str("background"), tb).config]
                     ELSE s
               s2 == [s1 EXCEPT !.renders = Append(@, NewRender)]
               s3 == renderBackground(s2, r)
           IN  IF Failed(s3) THEN [s3 EXCEPT !.renders[r].phase = "thrown"]
               ELSE Return(renderText(renderImage(s3, r), r), Undef)

\* render(): the synchronous part
render(s) ==
  LET config == getConfig(s.config, Keys(<<"background", "template">>)).val
      tb == config["template"].background
      r == Len(s.renders) + 1
  IN  IF ~Truthy(config["background"]) /\ tb.t = "undefined"
      THEN Throw(s, "TypeError", "render")
      ELSE LET s1 == IF ~Truthy(config["background"]) /\ LengthPositive(tb)
                     THEN [s EXCEPT !.config = setConfig(s.config, Str("background"), tb).config]
                     ELSE s
               s2 == [s1 EXCEPT !.renders = Append(@, NewRender)]
               s3 == renderBackground(s2, r)
           IN  IF Failed(s3) THEN [s3 EXCEPT !.renders[r].phase = "thrown"]
               ELSE Return(renderImage(s3, r), Undef)

\* a load callback that puts the draw of its layer ahead of the timers pending
imageLoaded_ahead(s, r) ==
  LET ctx == getContext(s)
      i == s.renders[r].idx
      s1 == [s EXCEPT !.timers = <<[kind |-> "image", r |-> r, i |-> i, ctx |-> ctx.val]>> \o @]
  IN  IF ctx.err # "none"
      THEN [s EXCEPT !.renders[r].phase = "rejected",
                     !.uncaught = Append(@, [where |-> "renderImage", err |-> ctx.err])]
      ELSE IF i < s.renders[r].n
           THEN [s1 EXCEPT !.renders[r].idx = i + 1]
           ELSE renderText([s1 EXCEPT !.renders[r].phase = "resolved"], r)

\* a load callback of the last layer after which renderText is not called
imageLoaded_notext(s, r) ==
  LET ctx == getContext(s)
      i == s.renders[r].idx
      s1 == [s EXCEPT !.timers = Append(@, [kind |-> "image", r |-> r, i |-> i, ctx |-> ctx.val])]
  IN  IF ctx.err # "none"
      THEN [s EXCEPT !.renders[r].phase = "rejected",
                     !.uncaught = Append(@, [where |-> "renderImage", err |-> ctx.err])]
      ELSE IF i < s.renders[r].n
           THEN [s1 EXCEPT !.renders[r].idx = i + 1]
           ELSE [s1 EXCEPT !.renders[r].phase = "resolved"]

\* the callback of the load of layer renders[r].idx, and the callbacks chained on it
imageLoaded(s, r) ==
  LET ctx == getContext(s)
      i == s.renders[r].idx
      s1 == [s EXCEPT !.timers = Append(@, [kind |-> "image", r |-> r, i |-> i, ctx |-> ctx.val])]
  IN  IF ctx.err # "none"
      THEN [s EXCEPT !.renders[r].phase = "rejected",
                     !.uncaught = Append(@, [where |-> "renderImage", err |-> ctx.err])]
      ELSE IF i < s.renders[r].n
           THEN [s1 EXCEPT !.renders[r].idx = i + 1]
           ELSE renderText([s1 EXCEPT !.renders[r].phase = "resolved"], r)

\* a failure of a load that is skipped: the chain goes on with the next layer
imageFailed_skipped(s, r) ==
  LET i == s.renders[r].idx
      s1 == [s EXCEPT !.renders[r].failed = i]
  IN  IF i < s.renders[r].n
      THEN [s1 EXCEPT !.renders[r].idx = i + 1]
      ELSE renderText([s1 EXCEPT !.renders[r].phase = "resolved"], r)

\* the load of layer renders[r].idx fails
imageFailed(s, r) ==
  [s EXCEPT !.renders[r].phase = "rejected",
            !.renders[r].failed = s.renders[r].idx,
            !.uncaught = Append(@, [where |-> "renderImage", err |-> "LoadError"])]

\* the callback of the load of the background image
backgroundLoaded(s, r) ==
  LET c == changeBackground([s EXCEPT !.renders[r].bg = "loaded"], "image",
                            [img |-> makeImage(s.renders[r].src), r |-> r])
  IN  IF Failed(c)
      THEN [c EXCEPT !.err = "none", !.at = "",
                     !.uncaught = Append(@, [where |-> "renderBackground", err |-> c.err])]
      ELSE c

\* the load of the background image fails
backgroundFailed(s, r) ==
  [s EXCEPT !.renders[r].bg = "failed",
            !.uncaught = Append(@, [where |-> "renderBackground", err |-> "LoadError"])]

\* writeText(text, props); r and j name the text item
writeText(s, text, props, r, j) ==
  LET ctx == getContext(s)
      config == getConfig(s.config, Keys(<<"color", "align">>)).val
      s1 == IF LooseEqEmpty(text) \/ text.t = "undefined"
            THEN [s EXCEPT !.warns = Append(@, "empty text")] ELSE s
  IN  IF ctx.err # "none" THEN Throw(s, ctx.err, "writeText")
      ELSE IF ctx.val.t = "undefined" THEN Throw(s1, "TypeError", "writeText")
      ELSE [s1 EXCEPT !.draws = Append(@,
              [op |-> "fillText", r |-> r, i |-> j, cv |-> ctx.val.id, arg |-> text,
               x |-> OrElse(props.x, Num(0)), y |-> OrElse(props.y, Num(0)),
               w |-> Undef, h |-> Undef, style |-> OrElse(props.color, config["color"])])]

\* the timer that fires next: the one scheduled first
nextTimer(timers) == 1

\* the callback of a timer
timerFired(s, k) ==
  LET tm == s.timers[k]
      rest == [j \in 1..(Len(s.timers) - 1) |-> IF j < k THEN s.timers[j] ELSE s.timers[j + 1]]
      s1 == [s EXCEPT !.timers = rest]
      d == IF tm.kind = "text"
           THEN writeText(s1, TextItem(tm.i).value, TextItem(tm.i).props, tm.r, tm.i)
           ELSE IF tm.ctx.t = "undefined" THEN Throw(s1, "TypeError", "renderImage")
           ELSE [s1 EXCEPT !.draws = Append(@,
                   [op |-> "drawImage", r |-> tm.r, i |-> tm.i, cv |-> tm.ctx.id,
                    arg |-> ImageLayer(tm.i).value,
                    x |-> OrElse(ImageLayer(tm.i).props.x, Num(0)),
                    y |-> OrElse(ImageLayer(tm.i).props.y, Num(0)),
                    w |-> Undef, h |-> Undef, style |-> Undef])]
  IN  IF Failed(d)
      THEN [d EXCEPT !.err = "none", !.at = "",
                     !.uncaught = Append(@, [where |-> d.at, err |-> d.err])]
      ELSE d

(* ------------------------------ the state ----------------------------- *)

VARIABLES
  config,     \* the store of the instance (_config.get(this))
  made,       \* the number of canvas elements makeElement has made
  children,   \* the canvases appended to the container, in order
  listeners,  \* per element of the document, the click handlers bound to it
  draws,      \* the drawing calls executed on a 2d context, in order
  warns,      \* the advisories written with console.warn, in order
  renders,    \* the calls of render() that reached renderBackground
  timers,     \* the zero-delay timers scheduled and not yet fired, in order
  uncaught,   \* the errors thrown in callbacks and the unhandled load failures
  pc,         \* "new" before the constructor, then "live" or "aborted" (it threw)
  ctor,       \* the call of the constructor: its argument and how it ended
  last,       \* the latest call of a public method: its arguments and how it ended
  calls       \* the number of calls of public methods after the constructor

vars == <<config, made, children, listeners, draws, warns, renders, timers,
          uncaught, pc, ctor, last, calls>>

Cur ==
  [config |-> config, made |-> made, children |-> children, listeners |-> listeners,
   draws |-> draws, warns |-> warns, renders |-> renders, timers |-> timers,
   uncaught |-> uncaught, err |-> "none", at |-> "", step |-> "", val |-> Undef]

Install(s) ==
  /\ config' = s.config
  /\ made' = s.made
  /\ children' = s.children
  /\ listeners' = s.listeners
  /\ draws' = s.draws
  /\ warns' = s.warns
  /\ renders' = s.renders
  /\ timers' = s.timers
  /\ uncaught' = s.uncaught

\* the record of a call
Call(op, p0, p1, s) ==
  [op |-> op, p0 |-> p0, p1 |-> p1, err |-> s.err, at |-> s.at, step |-> s.step,
   val |-> s.val]

Init ==
  /\ config = DefaultConfig
  /\ made = 0
  /\ children = <<>>
  /\ listeners = [e \in DomSelectors |-> 0]
  /\ draws = <<>>
  /\ warns = <<>>
  /\ renders = <<>>
  /\ timers = <<>>
  /\ uncaught = <<>>
  /\ pc = "new"
  /\ ctor = Call("none", Undef, Undef, Cur)
  /\ last = Call("none", Undef, Undef, Cur)
  /\ calls = 0

(* ------------------------------ the inputs ---------------------------- *)

Omitted == [t |-> "omitted"]
Opt(k, v) == IF v = Omitted THEN <<>> ELSE <<[key |-> k, val |-> v]>>

\* the image and text lists of a template: absent, or of 0..n items
Lists(n) == {Undef} \cup {Arr(k) : k \in 0..n}

Templates ==
  {Tpl(bg, im, tx) : bg \in {Undef, Str(""), Str("blue"), Str("bg.png")},
                     im \in Lists(MaxImages), tx \in Lists(MaxText)}

\* the configs objects given to the constructor
ConfigInputs ==
  {Obj(Opt("background", b) \o Opt("canvas", c) \o Opt("download", d)
       \o Opt("el", e) \o Opt("template", tp)) :
     b \in {Omitted, Str("blue"), Str("bg.png")},
     c \in {Omitted, Canvas(0)},
     d \in {Omitted, Str("#dl"), Str("#nope")},
     e \in {Omitted, Str("#nope")},
     tp \in {Omitted} \cup Templates}

\* the configs objects given to the constructor of an instance whose methods are called
ApiInputs ==
  {Obj(Opt("background", b) \o Opt("download", Str("#dl"))
       \o Opt("template", Tpl(Undef, Arr(1), Arr(1)))) :
     b \in {Str("blue")}}

\* the configs objects given to the constructor of an instance that is attached
\* to the default container and bound to the download button
RenderInputs ==
  {Obj(Opt("background", b) \o Opt("download", Str("#dl")) \o Opt("template", tp)) :
     b \in {Omitted, Str("blue"), Str("bg.png")},
     tp \in Templates}

\* the arguments of the calls of setConfig
SetInputs ==
  {[p0 |-> Str(k), p1 |-> v] :
     k \in {"color"}, v \in {Str("red"), Str(""), Num(0), Bool(FALSE), Undef}}
  \cup {[p0 |-> Str("canvas"), p1 |-> v] : v \in {Canvas(0), Undef}}
  \cup {[p0 |-> Str("foo"), p1 |-> Str("x")]}
  \cup {[p0 |-> Obj(<<[key |-> "color", val |-> Str("red")],
                      [key |-> "foo", val |-> Str("")]>>), p1 |-> Undef]}

\* the arguments of the calls of getConfig
GetInputs ==
  {Str("color"), Str("foo"), Str("canvas"), Undef,
   Keys(<<"color", "foo">>), Keys(<<"foo", "canvas", "foo">>)}

(* ------------------------------ the actions --------------------------- *)

\* s, with the call of the constructor that threw (name) when s is an exception
Step(s, name) == IF Failed(s) /\ s.step = "" THEN [s EXCEPT !.step = name] ELSE s

\* new CardMaker(configs): setConfig, putCanvas, render and enableDownload, up to
\* the first that throws (s.step names it)
Construct(inputs) ==
  /\ pc = "new"
  /\ \E configs \in inputs :
     \E s1 \in {[Cur EXCEPT !.config = setConfig(config, configs, Undef).config]} :
     \E s2 \in {Step(putCanvas(s1), "putCanvas")} :
     \E s3 \in {IF Failed(s2) THEN s2 ELSE Step(render(s2), "render")} :
     \E s4 \in {IF Failed(s3) THEN s3 ELSE Step(enableDownload(s3), "enableDownload")} :
       /\ Install(s4)
       /\ pc' = IF Failed(s4) THEN "aborted" ELSE "live"
       /\ ctor' = Call("new", configs, Undef, s4)
  /\ UNCHANGED <<last, calls>>

\* the load of the awaited image layer of a render completes
LayerLoaded ==
  \E r \in 1..Len(renders) :
    /\ renders[r].phase = "loading"
    /\ \E s \in {Cur} : \E s1 \in {imageLoaded(s, r)} : Install(s1)
    /\ UNCHANGED <<pc, ctor, last, calls>>

\* the load of the awaited image layer of a render fails
LayerFailed ==
  \E r \in 1..Len(renders) :
    /\ renders[r].phase = "loading"
    /\ \E s \in {Cur} : \E s1 \in {imageFailed(s, r)} : Install(s1)
    /\ UNCHANGED <<pc, ctor, last, calls>>

\* the load of the background image of a render completes
BackgroundLoaded ==
  \E r \in 1..Len(renders) :
    /\ renders[r].bg = "loading"
    /\ \E s \in {Cur} : \E s1 \in {backgroundLoaded(s, r)} : Install(s1)
    /\ UNCHANGED <<pc, ctor, last, calls>>

\* the load of the background image of a render fails
BackgroundFailed ==
  \E r \in 1..Len(renders) :
    /\ renders[r].bg = "loading"
    /\ \E s \in {Cur} : \E s1 \in {backgroundFailed(s, r)} : Install(s1)
    /\ UNCHANGED <<pc, ctor, last, calls>>

\* a zero-delay timer fires
TimerFire ==
  /\ timers # <<>>
  /\ \E s \in {Cur} : \E s1 \in {timerFired(s, nextTimer(timers))} : Install(s1)
  /\ UNCHANGED <<pc, ctor, last, calls>>

\* a call of a public method on the constructed instance
CanCall == pc = "live" /\ calls < MaxCalls
Called(op, p0, p1, s) ==
  /\ last' = Call(op, p0, p1, s)
  /\ calls' = calls + 1
  /\ UNCHANGED <<pc, ctor>>

\* setConfig(key, value) and setConfig(object)
CallSetConfig ==
  /\ CanCall
  /\ \E in \in SetInputs :
     \E s \in {Cur} :
     \E c \in {setConfig(config, in.p0, in.p1)} :
       /\ Install([s EXCEPT !.config = c.config])
       /\ Called("setConfig", in.p0, in.p1, Return(s, c.val))

\* getConfig(key), getConfig(keys) and getConfig()
CallGetConfig ==
  /\ CanCall
  /\ \E key \in GetInputs :
     \E s \in {Cur} :
     \E g \in {getConfig(config, key)} :
       /\ Install(s)
       /\ Called("getConfig", key, Undef,
                 IF g.err # "none" THEN Throw(s, g.err, "getConfig") ELSE Return(s, g.val))

\* makeCanvas()
CallMakeCanvas ==
  /\ CanCall
  /\ \E s \in {Cur} :
     \E s1 \in {makeCanvas(s, [width |-> Undef, height |-> Undef])} :
       /\ Install(s1)
       /\ Called("makeCanvas", Undef, Undef, s1)

\* putCanvas()
CallPutCanvas ==
  /\ CanCall
  /\ \E s \in {Cur} :
     \E s1 \in {putCanvas(s)} :
       /\ Install(s1)
       /\ Called("putCanvas", Undef, Undef, s1)

\* render()
CallRender ==
  /\ CanCall
  /\ \E s \in {Cur} :
     \E s1 \in {render(s)} :
       /\ Install(s1)
       /\ Called("render", Undef, Undef, s1)

\* getImage()
CallGetImage ==
  /\ CanCall
  /\ \E s \in {Cur} :
     \E s1 \in {getImage(s, "jpeg")} :
       /\ Install(s1)
       /\ Called("getImage", Str("jpeg"), Undef, s1)

\* enableDownload()
CallEnableDownload ==
  /\ CanCall
  /\ \E s \in {Cur} :
     \E s1 \in {enableDownload(s)} :
       /\ Install(s1)
       /\ Called("enableDownload", Undef, Undef, s1)

(* --------------------------- the specifications ----------------------- *)

\* the construction of an instance from any configs, and the render it starts
Next ==
  \/ Construct(ConfigInputs)
  \/ LayerLoaded
  \/ LayerFailed
  \/ BackgroundLoaded
  \/ BackgroundFailed
  \/ TimerFire

Spec == Init /\ [][Next]_vars

\* a constructed instance and the calls of its public methods; its background is
\* a color, so that no load of a background image is ever awaited
NextApi ==
  \/ Construct(ApiInputs)
  \/ LayerLoaded
  \/ LayerFailed
  \/ TimerFire
  \/ CallSetConfig
  \/ CallGetConfig
  \/ CallMakeCanvas
  \/ CallPutCanvas
  \/ CallRender
  \/ CallGetImage
  \/ CallEnableDownload

SpecApi == Init /\ [][NextApi]_vars

\* the construction of an instance that renders, and its render
NextFair ==
  \/ Construct(RenderInputs)
  \/ LayerLoaded
  \/ LayerFailed
  \/ BackgroundLoaded
  \/ BackgroundFailed
  \/ TimerFire

\* fair scheduling: a pending zero-delay timer fires (the event loop runs every
\* task it holds), and a load that was started settles, with a success or a
\* failure
Fairness ==
  /\ WF_vars(TimerFire)
  /\ WF_vars(LayerLoaded \/ LayerFailed)
  /\ WF_vars(BackgroundLoaded \/ BackgroundFailed)

SpecFair == Init /\ [][NextFair]_vars /\ Fairness

(* -------------------------------- claims ------------------------------ *)

\* layer i of render r was drawn before position p of draws
LayerDrawnBefore(r, i, p) ==
  \E q \in 1..(p - 1) :
    draws[q].op = "drawImage" /\ draws[q].r = r /\ draws[q].i = i

\* nothing is pending: no timer, no load
Quiescent ==
  /\ timers = <<>>
  /\ \A r \in 1..Len(renders) : renders[r].phase # "loading" /\ renders[r].bg # "loading"

\* the constructor ran up to render()
RenderCalled == pc # "new" /\ ctor.step # "putCanvas"

\* the constructor ran up to enableDownload()
EnableDownloadCalled == pc # "new" /\ ctor.step \notin {"putCanvas", "render"}

\* the step is a call of op on the constructed instance
IsCall(op) == calls' = calls + 1 /\ last'.op = op

\* C1: no text item of a render is drawn before every image layer of the image
\* list of that render has been drawn.
C1_TextAfterEveryImage ==
  \A p \in 1..Len(draws) :
    draws[p].op = "fillText" =>
      \A i \in 1..renders[draws[p].r].n : LayerDrawnBefore(draws[p].r, i, p)

C1_Witness ==
  \E p \in 1..Len(draws) :
    draws[p].op = "fillText" /\ renders[draws[p].r].n >= 2

\* C2: with images: [] and a non-empty text list, once the render has nothing
\* pending the background color is painted and every text item is drawn at its
\* position.
C2_EmptyImagesTextDrawn ==
  ( /\ RenderCalled
    /\ Len(renders) = 1
    /\ renders[1].phase # "thrown"
    /\ Quiescent
    /\ config["template"].images = Arr(0)
    /\ config["template"].text.t = "array"
    /\ config["template"].text.len >= 1 )
  => /\ isColor(config["background"]) =>
          \E p \in 1..Len(draws) :
            draws[p].op = "fillRect" /\ draws[p].arg = config["background"]
     /\ \A j \in 1..config["template"].text.len :
          \E p \in 1..Len(draws) :
            /\ draws[p].op = "fillText"
            /\ draws[p].i = j
            /\ draws[p].arg = TextItem(j).value
            /\ draws[p].x = OrElse(TextItem(j).props.x, Num(0))
            /\ draws[p].y = OrElse(TextItem(j).props.y, Num(0))

\* C3: with the download option left at '', enableDownload() raises no error and
\* binds no handler, and the construction completes.
C3_UnsetDownloadIsNoop ==
  (EnableDownloadCalled /\ config["download"] = Str(""))
  => /\ ctor.err = "none"
     /\ pc = "live"
     /\ \A e \in DomSelectors : listeners[e] = 0

\* C4: with no background in the config and none (absent or empty) in the
\* template, render() throws nothing, fills the whole surface with black first
\* and warns that no background was given.
C4_NoBackgroundPaintsBlack ==
  ( /\ RenderCalled
    /\ config["background"] = Undef
    /\ config["template"].background \in {Undef, Str("")} )
  => /\ ctor.step # "render"
     /\ Len(draws) >= 1
     /\ draws[1].op = "fillRect"
     /\ draws[1].arg = colorNameToHex("black")
     /\ draws[1].w = config["width"] /\ draws[1].h = config["height"]
     /\ \E k \in 1..Len(warns) : warns[k] = "no background"

\* C5: once the store holds a canvas, no step assigns another value to it.
C5_SurfaceAssignedOnce ==
  [][config["canvas"].t = "canvas" => config'["canvas"] = config["canvas"]]_vars

\* C6: makeCanvas() on an instance whose store holds a canvas throws the
\* duplicate-canvas error, makes no element and leaves the store as it was.
C6_SecondMakeCanvasFails ==
  [][(IsCall("makeCanvas") /\ config["canvas"].t = "canvas")
       => /\ last'.err = "DuplicateCanvas"
          /\ made' = made
          /\ children' = children
          /\ config' = config]_vars

C6_Witness ==
  last.op = "makeCanvas" /\ last.err = "DuplicateCanvas" /\ config["canvas"] = Canvas(1)

\* setConfig(k, v) returns {k: v} and leaves v in the store, whatever k held
SetStores ==
  (IsCall("setConfig") /\ last'.p0.t = "string")
  => /\ last'.err = "none"
     /\ last'.val = (last'.p0.s :> last'.p1)
     /\ Lookup(config', last'.p0.s) = last'.p1
     /\ \A k \in (DOMAIN config') \ {last'.p0.s} : Lookup(config', k) = Lookup(config, k)

\* the singles setConfig(k1, v1), setConfig(k2, v2), ... of the entries from i on
RECURSIVE Singles(_, _, _)
Singles(cfg, entries, i) ==
  IF i > Len(entries) THEN cfg
  ELSE Singles(setConfig(cfg, Str(entries[i].key), entries[i].val).config, entries, i + 1)

\* setConfig({k1: v1, k2: v2}) leaves the store the single sets leave and returns
\* what they return, together
BatchAsSingles ==
  (IsCall("setConfig") /\ last'.p0.t = "object")
  => /\ last'.err = "none"
     /\ config' = Singles(config, last'.p0.entries, 1)
     /\ DOMAIN last'.val = {last'.p0.entries[i].key : i \in 1..Len(last'.p0.entries)}
     /\ \A i \in 1..Len(last'.p0.entries) :
          last'.val[last'.p0.entries[i].key] = last'.p0.entries[i].val

\* the step is getConfig(k) right after setConfig(k, v)
GetAfterSet ==
  /\ IsCall("getConfig")
  /\ last'.p0.t = "string"
  /\ last.op = "setConfig"
  /\ last.p0 = last'.p0

C8_FailsOnlyOnEmptyString ==
  [][(IsCall("getConfig") /\ last'.p0.t = "string" /\ last'.p0.s # "")
       => IF Lookup(config, last'.p0.s) = Str("")
          THEN last'.err = "ConfigKey"
          ELSE last'.err = "none" /\ last'.val = Lookup(config, last'.p0.s)]_vars

\* C9: getConfig(keys) returns a record of exactly the keys asked for, each with
\* the value the store holds (undefined for a key it does not hold, '' for a key
\* that holds ''), throws nothing and leaves the store as it was.
C9_ListGet ==
  [][(IsCall("getConfig") /\ last'.p0.t = "array")
       => /\ last'.err = "none"
          /\ DOMAIN last'.val = {last'.p0.keys[i] : i \in 1..Len(last'.p0.keys)}
          /\ \A k \in DOMAIN last'.val : last'.val[k] = Lookup(config, k)
          /\ config' = config]_vars

C9_Witness ==
  /\ last.op = "getConfig" /\ last.p0 = Keys(<<"color", "foo">>)
  /\ "foo" \notin DOMAIN config
  /\ last.err = "none"
  /\ last.val = [color |-> Str(""), foo |-> Undef]

\* C10: enableDownload() with a non-empty selector throws the not-found error and
\* binds nothing when the selector matches no element, and binds exactly one
\* click handler, to the element, when it matches one.
C10_DownloadBinding ==
  (EnableDownloadCalled /\ config["download"].t = "string" /\ config["download"].s # "")
  => IF config["download"].s \in DomSelectors
     THEN /\ ctor.err = "none"
          /\ \A e \in DomSelectors :
               listeners[e] = IF e = config["download"].s THEN 1 ELSE 0
     ELSE /\ ctor.err = "DownloadNotFound"
          /\ ctor.step = "enableDownload"
          /\ \A e \in DomSelectors : listeners[e] = 0

C10_Witness ==
  /\ pc = "aborted"
  /\ ctor.err = "DownloadNotFound"
  /\ config["download"] = Str("#nope")

\* C11: getImage() throws when the store holds no canvas; when it holds one it
\* returns the encoding of that canvas in the format asked for, whatever the
\* renders are doing; it changes neither the store nor the draws.
C11_GetImage ==
  [][IsCall("getImage")
       => /\ config' = config
          /\ draws' = draws
          /\ timers' = timers
          /\ renders' = renders
          /\ IF config["canvas"].t = "canvas"
             THEN /\ last'.err = "none"
                  /\ last'.val = [t |-> "dataurl", cv |-> config["canvas"].id,
                                  format |-> last'.p0.s]
             ELSE last'.err # "none"]_vars

C11_Witness ==
  /\ last.op = "getImage"
  /\ last.err = "none"
  /\ last.val.t = "dataurl"
  /\ \E r \in 1..Len(renders) : renders[r].phase = "loading"

\* C12: when the el of the configs matches no element, the constructor throws in
\* putCanvas(), with the container-not-found error once putCanvas() has looked
\* the container up, and render() and enableDownload() are never called: nothing
\* is drawn, no load is started, no timer is scheduled, no handler is bound.
C12_NoContainerAborts ==
  (pc # "new" /\ querySelector(config["el"]).t = "null")
  => /\ pc = "aborted"
     /\ ctor.step = "putCanvas"
     /\ (made = 1 => ctor.err = "ElNotFound")
     /\ children = <<>>
     /\ draws = <<>>
     /\ renders = <<>>
     /\ timers = <<>>
     /\ warns = <<>>
     /\ \A e \in DomSelectors : listeners[e] = 0

C12_Witness ==
  /\ pc = "aborted"
  /\ ctor.err = "ElNotFound"
  /\ config["el"] = Str("#nope")
  /\ config["background"] = Str("blue")
  /\ config["download"] = Str("#dl")
  /\ config["template"] = Tpl(Undef, Arr(1), Arr(1))

\* the background of render r was painted before position p of draws
BackgroundPaintedBefore(r, p) ==
  \E q \in 1..(p - 1) :
    draws[q].r = r /\ draws[q].i = 0 /\ draws[q].op \in {"fillRect", "drawImage"}

\* C13: on a constructed instance, whatever the background is (a color, the URL
\* of an image, nothing) and in whatever order the loads complete, no image layer
\* of a render is drawn before the background of that render has been painted.
C13_BackgroundBeforeLayers ==
  pc = "live" =>
    \A p \in 1..Len(draws) :
      (draws[p].op = "drawImage" /\ draws[p].i >= 1)
        => BackgroundPaintedBefore(draws[p].r, p)

\* C14: on a constructed instance, whatever the background is, and however late
\* the load of a background image completes, no text item of a render is drawn
\* before the background of that render has been painted.
C14_BackgroundBeforeText ==
  pc = "live" =>
    \A p \in 1..Len(draws) :
      draws[p].op = "fillText" => BackgroundPaintedBefore(draws[p].r, p)

\* the draw of layer i of render r is scheduled (its timer is pending) or executed
LayerPending(r, i) ==
  \E k \in 1..Len(timers) : timers[k].kind = "image" /\ timers[k].r = r /\ timers[k].i = i

LayerDrawn(r, i) == LayerDrawnBefore(r, i, Len(draws) + 1)

\* the load of layer i of render r has been started
LayerLoadStarted(r, i) == 1 <= i /\ i <= renders[r].idx

\* the load of layer i of render r has completed
LayerLoadCompleted(r, i) ==
  /\ 1 <= i
  /\ \/ i < renders[r].idx
     \/ i = renders[r].idx /\ renders[r].phase = "resolved"

\* C15: the draws of the image layers of a render are scheduled in the order of
\* the list and executed in that order, and the load of a layer is started only
\* when the load of the layer before it has completed and its draw is scheduled.
C15_LayersInListOrder ==
  \A r \in 1..Len(renders) :
    /\ \A k, l \in 1..Len(timers) :
         (k < l /\ timers[k].kind = "image" /\ timers[l].kind = "image"
                /\ timers[k].r = r /\ timers[l].r = r)
           => timers[k].i < timers[l].i
    /\ \A p, q \in 1..Len(draws) :
         (p < q /\ draws[p].op = "drawImage" /\ draws[q].op = "drawImage"
                /\ draws[p].r = r /\ draws[q].r = r /\ draws[p].i >= 1 /\ draws[q].i >= 1)
           => draws[p].i < draws[q].i
    /\ \A i, j \in 1..renders[r].n :
         (LayerDrawn(r, j) /\ LayerPending(r, i)) => j < i
    /\ \A i \in 1..renders[r].n :
         (LayerPending(r, i) \/ LayerDrawn(r, i)) => LayerLoadCompleted(r, i)
    /\ \A i \in 2..renders[r].n :
         LayerLoadStarted(r, i)
           => /\ LayerLoadCompleted(r, i - 1)
              /\ (LayerPending(r, i - 1) \/ LayerDrawn(r, i - 1))

\* both layers of a list of two have been drawn
C15_Witness ==
  /\ Len(renders) = 1
  /\ renders[1].n = 2
  /\ LayerDrawn(1, 1)
  /\ LayerDrawn(1, 2)

\* position p of draws is the draw of text item j of render r
TextDrawnAt(r, j, p) ==
  draws[p].op = "fillText" /\ draws[p].r = r /\ draws[p].i = j

\* C16: the text items of a render are scheduled and drawn in the order of the
\* list, and a text draw is scheduled only when the promise of the image phase
\* is resolved, that is when the draw of every image layer is scheduled already
\* (ahead of it in the timers, or executed).
C16_TextInListOrder ==
  \A r \in 1..Len(renders) :
    /\ \A k, l \in 1..Len(timers) :
         (k < l /\ timers[k].kind = "text" /\ timers[l].kind = "text"
                /\ timers[k].r = r /\ timers[l].r = r)
           => timers[k].i < timers[l].i
    /\ \A p, q \in 1..Len(draws) :
         (p < q /\ draws[p].op = "fillText" /\ draws[q].op = "fillText"
                /\ draws[p].r = r /\ draws[q].r = r)
           => draws[p].i < draws[q].i
    /\ \A p \in 1..Len(draws), k \in 1..Len(timers) :
         (draws[p].op = "fillText" /\ draws[p].r = r
            /\ timers[k].kind = "text" /\ timers[k].r = r)
           => draws[p].i < timers[k].i
    /\ ( \/ renders[r].text # "none"
         \/ \E p \in 1..Len(draws) : draws[p].op = "fillText" /\ draws[p].r = r
         \/ \E k \in 1..Len(timers) : timers[k].kind = "text" /\ timers[k].r = r )
       => /\ renders[r].phase = "resolved"
          /\ \A i \in 1..renders[r].n : LayerPending(r, i) \/ LayerDrawn(r, i)
          /\ \A k, l \in 1..Len(timers) :
               (timers[k].kind = "image" /\ timers[l].kind = "text"
                  /\ timers[k].r = r /\ timers[l].r = r) => k < l

\* both items of a text list of two have been drawn, after two layers
C16_Witness ==
  /\ Len(renders) = 1
  /\ renders[1].n = 2
  /\ \E p, q \in 1..Len(draws) : p < q /\ TextDrawnAt(1, 1, p) /\ TextDrawnAt(1, 2, q)

\* what the configs given to the constructor leave in the store for key k, before
\* putCanvas() and render() run
Given(k) ==
  LET entries == ctor.p0.entries
      at == {i \in 1..Len(entries) : entries[i].key = k}
  IN  IF at = {} THEN DefaultConfig[k]
      ELSE entries[CHOOSE i \in at : \A j \in at : j <= i].val

\* the one render paints, or is loading to paint, the background v and no other
BackgroundUsed(v) ==
  /\ Len(renders) = 1
  /\ \A p \in 1..Len(draws) :
       draws[p].i = 0 =>
         IF isColor(v)
         THEN draws[p].op = "fillRect" /\ draws[p].arg = v
         ELSE draws[p].op = "drawImage" /\ draws[p].arg = makeImage(v)
  /\ IF isColor(v)
     THEN Len(draws) >= 1 /\ draws[1].i = 0 /\ renders[1].bg = "none"
     ELSE /\ renders[1].src = v
          /\ renders[1].bg \in {"loading", "loaded", "failed"}
          /\ renders[1].bg = "loaded" <=> \E p \in 1..Len(draws) : draws[p].i = 0

\* C17: when the store holds no background and the template holds a non-empty
\* one, render() stores the background of the template and that is the
\* background painted; when the store holds a background, render() leaves it and
\* it is the background painted, whatever the template holds.
C17_BackgroundFromTemplate ==
  RenderCalled =>
    IF Truthy(Given("background"))
    THEN /\ ctor.step # "render"
         /\ config["background"] = Given("background")
         /\ BackgroundUsed(Given("background"))
    ELSE LengthPositive(Given("template").background)
           => /\ ctor.step # "render"
              /\ config["background"] = Given("template").background
              /\ BackgroundUsed(Given("template").background)

\* the background image of the template, stored by render(), has been painted
C17_Witness ==
  /\ RenderCalled
  /\ Given("background") = Undef
  /\ Given("template").background = Str("bg.png")
  /\ config["background"] = Str("bg.png")
  /\ \E p \in 1..Len(draws) : draws[p].i = 0 /\ draws[p].arg = makeImage(Str("bg.png"))

\* the load of a layer of render r has failed: the layer is renders[r].failed
LayerLoadFailed(r) == renders[r].failed >= 1

\* after the failure of the load of layer i of render r: render()'s promise is
\* rejected and unhandled, renderText was not called, layer i and the layers
\* after it are neither scheduled nor drawn, the layers before it are
LoadFailureStops ==
  \A r \in 1..Len(renders) :
    LayerLoadFailed(r)
      => /\ renders[r].phase = "rejected"
         /\ \E u \in 1..Len(uncaught) :
              uncaught[u] = [where |-> "renderImage", err |-> "LoadError"]
         /\ renders[r].idx = renders[r].failed
         /\ renders[r].text = "none"
         /\ \A p \in 1..Len(draws) : ~(draws[p].op = "fillText" /\ draws[p].r = r)
         /\ \A k \in 1..Len(timers) : ~(timers[k].kind = "text" /\ timers[k].r = r)
         /\ \A j \in renders[r].failed..renders[r].n : ~LayerPending(r, j) /\ ~LayerDrawn(r, j)
         /\ \A j \in 1..(renders[r].failed - 1) : LayerPending(r, j) \/ LayerDrawn(r, j)

\* a render whose load failed starts no other load and never calls renderText
LoadFailureIsFinal ==
  \A r \in 1..Len(renders) :
    LayerLoadFailed(r)
      => /\ renders'[r].phase = "rejected"
         /\ renders'[r].idx = renders[r].idx
         /\ renders'[r].text = "none"

\* the layers before the one whose load failed are all drawn
EarlierLayersDrawn(r) ==
  \A j \in 1..(renders[r].failed - 1) : LayerDrawn(r, j)

\* C18: when the load of layer i fails, render()'s promise rejects, no layer
\* after i is loaded or drawn and no text item is scheduled or drawn, ever; the
\* draws of the layers before i stay scheduled and are eventually executed.
C18_LoadFailure ==
  /\ []LoadFailureStops
  /\ [][LoadFailureIsFinal]_vars
  /\ \A r \in 1..1 :
       (Len(renders) >= r /\ LayerLoadFailed(r)) ~> (Len(renders) >= r /\ EarlierLayersDrawn(r))

\* the load of the second layer failed and the first layer has been drawn since
C18_Witness ==
  /\ Len(renders) = 1
  /\ renders[1].n = 2
  /\ renders[1].failed = 2
  /\ LayerDrawn(1, 1)
  /\ timers = <<>>

\* the one render runs on an image list of n >= 1 layers and a text list of
\* m >= 1 items
RenderStarted ==
  /\ Len(renders) = 1
  /\ renders[1].n >= 1
  /\ TemplateList(Cur, "text").t = "array"
  /\ TemplateList(Cur, "text").len >= 1

\* the number of draws of the image layer (op "drawImage") or of the text item
\* (op "fillText") i of render r executed so far
DrawCount(r, op, i) ==
  Cardinality({p \in 1..Len(draws) :
                 draws[p].op = op /\ draws[p].r = r /\ draws[p].i = i})

\* every image layer and every text item of the one render is drawn, once, and
\* no draw is pending
RenderDone ==
  /\ RenderStarted
  /\ \A i \in 1..renders[1].n : DrawCount(1, "drawImage", i) = 1
  /\ \A j \in 1..TemplateList(Cur, "text").len : DrawCount(1, "fillText", j) = 1
  /\ timers = <<>>
  /\ renders[1].phase = "resolved"

\* no image layer and no text item is ever drawn twice
DrawnAtMostOnce ==
  \A p, q \in 1..Len(draws) :
    (p # q /\ draws[p].i >= 1)
      => ~(draws[p].op = draws[q].op /\ draws[p].r = draws[q].r /\ draws[p].i = draws[q].i)

\* C19: a render on non-empty image and text lists, none of whose loads fails,
\* eventually has drawn every image layer and every text item, each once, with
\* no draw pending; it stays so, and nothing is ever drawn twice.
C19_RenderCompletes ==
  /\ RenderStarted ~> (RenderDone \/ (Len(renders) = 1 /\ LayerLoadFailed(1)))
  /\ [][RenderDone => RenderDone']_vars
  /\ []DrawnAtMostOnce

\* a render of two layers and two text items is complete
C19_Witness ==
  /\ RenderDone
  /\ renders[1].n = 2
  /\ TemplateList(Cur, "text").len = 2

====
